---- MODULE Spec2Model ----
(***************************************************************************)
(* Model of the BCCSP-based membership service provider of                 *)
(* src/msp/mspimpl.go: the bccspmsp struct, Setup, Validate,               *)
(* DeserializeIdentity, SatisfiesPrincipal and the getters.                *)
(*                                                                         *)
(* Byte blobs are modelled by what the decoders make of them: a PEM blob   *)
(* carries a DER payload, a DER payload is a well-formed certificate or    *)
(* not, and a certificate carries subject, issuer, CA flag and public key. *)
(***************************************************************************)
EXTENDS Integers, Sequences, FiniteSets, TLC

\* ------------------------------------------------------------------ bounds
\* longest root certificate list of a configuration
MaxCerts == 1
\* number of Setup calls of a behaviour
MaxSetups == 2
\* number of reader calls of a behaviour with concurrent callers
MaxReads == 1

\* ------------------------------------------------------- certificates, blobs
Names == {"org1", "org2"}

NoCert == [wellformed |-> FALSE, subject |-> "", issuer |-> "", isCA |-> FALSE, key |-> 0]

MkCert(s, i, ca, k) == [wellformed |-> TRUE, subject |-> s, issuer |-> i, isCA |-> ca, key |-> k]

\* a self-signed root CA, an intermediate CA issued by it, an end entity
\* issued by the intermediate
CertR == MkCert("R", "R", TRUE, 1)
CertM == MkCert("M", "R", TRUE, 2)
CertE == MkCert("E", "M", FALSE, 3)

Certs == {CertR, CertM, CertE}

\* bytes handed to pem.Decode: absent, not PEM, or a PEM block with a payload
NilBytes == [kind |-> "nil", der |-> NoCert]
TextBytes == [kind |-> "text", der |-> NoCert]
PemOf(der) == [kind |-> "pem", der |-> der]

\* the malformed DER payload: a PEM block that is no certificate
BadDer == PemOf(NoCert)


\* private key material: a PEM block carrying an EC private key (0: not a key)
NoPemKey == [pem |-> FALSE, key |-> 0]
PemKey(k) == [pem |-> TRUE, key |-> k]

\* ------------------------------------------------------------- identities
NilIdentity == [nil |-> TRUE, type |-> "", mspid |-> "", id |-> "", cert |-> NoCert, pk |-> 0]

\* newIdentity(id, cert, pk, msp)
newIdentity(mspid, lid, cert, pk) ==
  [nil |-> FALSE, type |-> "x509", mspid |-> mspid, id |-> lid, cert |-> cert, pk |-> pk]

NilSigner ==
  [nil |-> TRUE, mspid |-> "", id |-> "", cert |-> NoCert, pk |-> 0, signerKey |-> 0]

\* newSigningIdentity(id, cert, pk, signer, msp)
newSigningIdentity(mspid, lid, cert, pk, sk) ==
  [nil |-> FALSE, mspid |-> mspid, id |-> lid, cert |-> cert, pk |-> pk, signerKey |-> sk]

\* pem.Decode: the block, or nil when the input holds no PEM block
PemDecode(b) == [ok |-> b.kind = "pem", bytes |-> b.der]

\* x509.ParseCertificate
ParseCertificate(der) == [ok |-> der.wellformed, cert |-> der]

\* bccsp.KeyImport of a certificate's public key
KeyImportCert(cert) == [ok |-> cert.key > 0, pk |-> cert.key]

\* bccsp.KeyImport of EC private key bytes
KeyImportPriv(k) == [ok |-> k > 0, key |-> k]

\* getIdentityFromConf(idBytes), reading msp.name
getIdentityFromConf(mspName, idBytes) ==
  IF idBytes.kind = "nil"
    THEN [err |-> "DecodeError", id |-> NilIdentity]
  ELSE IF ~PemDecode(idBytes).ok
    THEN [err |-> "DecodeError", id |-> NilIdentity]
  ELSE IF ~ParseCertificate(PemDecode(idBytes).bytes).ok
    THEN [err |-> "ParseError", id |-> NilIdentity]
  ELSE IF ~KeyImportCert(ParseCertificate(PemDecode(idBytes).bytes).cert).ok
    THEN [err |-> "KeyImportError", id |-> NilIdentity]
  ELSE LET cert == ParseCertificate(PemDecode(idBytes).bytes).cert
       IN [err |-> "",
           id |-> newIdentity(mspName, "IDENTITY", cert, KeyImportCert(cert).pk)]

\* signing-identity record of a configuration
NoSidInfo ==
  [publicSigner |-> NilBytes, privateSignerNil |-> TRUE, keyMaterial |-> NoPemKey]

\* getSigningIdentityFromConf(sidInfo), reading msp.name; the nil sidInfo is
\* never passed by Setup. A nil PrivateSigner or key material that holds no
\* PEM block is dereferenced and panics.
getSigningIdentityFromConf(mspName, sidInfo) ==
  LET idPub == getIdentityFromConf(mspName, sidInfo.publicSigner)
      key == KeyImportPriv(sidInfo.keyMaterial.key)
  IN IF idPub.err # ""
       THEN [err |-> idPub.err, sid |-> NilSigner]
     ELSE IF sidInfo.privateSignerNil \/ ~sidInfo.keyMaterial.pem
       THEN [err |-> "panic", sid |-> NilSigner]
     ELSE IF ~key.ok
       THEN [err |-> "KeyImportError", sid |-> NilSigner]
     ELSE [err |-> "",
           sid |-> newSigningIdentity(mspName, "DEFAULT", idPub.id.cert,
                                      idPub.id.pk, key.key)]

\* ------------------------------------------------------------ configuration
\* the MSPConfig handed to Setup: a nil reference, bytes that do not
\* unmarshal, or a FabricMSPConfig
NoConf ==
  [kind |-> "none", name |-> "", admins |-> <<>>, rootCerts |-> <<>>,
   intermediateCerts |-> <<>>, hasSid |-> FALSE, sid |-> NoSidInfo]

NilConf == [NoConf EXCEPT !.kind = "nil"]
GarbageConf == [NoConf EXCEPT !.kind = "garbage"]

SeqsUpTo(S, n) == UNION {[1..k -> S] : k \in 0..n}

\* the certificate blobs the configurations draw from, per field
AdminBlobs == {TextBytes, PemOf(CertE)}
RootBlobs == {BadDer, PemOf(CertR)}
InterBlobs == {TextBytes, PemOf(CertM)}

\* the signing-identity records the configurations draw from: a matching
\* key pair, a private key of another certificate, an undecodable public
\* part, key material without a PEM block, an unusable private key
SidInfos ==
  { [publicSigner |-> PemOf(CertE), privateSignerNil |-> FALSE, keyMaterial |-> PemKey(3)],
    [publicSigner |-> PemOf(CertE), privateSignerNil |-> FALSE, keyMaterial |-> PemKey(1)],
    [publicSigner |-> TextBytes, privateSignerNil |-> FALSE, keyMaterial |-> PemKey(3)],
    [publicSigner |-> PemOf(CertE), privateSignerNil |-> FALSE, keyMaterial |-> NoPemKey],
    [publicSigner |-> PemOf(CertE), privateSignerNil |-> FALSE, keyMaterial |-> PemKey(0)] }

\* configurations without a signing identity, and configurations that carry
\* one next to a root list; the admin and the intermediate list hold no blob
\* or one, the root list up to MaxCerts
OkConfs ==
  { [kind |-> "ok", name |-> n, admins |-> a, rootCerts |-> r,
     intermediateCerts |-> i, hasSid |-> FALSE, sid |-> NoSidInfo] :
      n \in Names, a \in SeqsUpTo(AdminBlobs, 1),
      r \in SeqsUpTo(RootBlobs, MaxCerts), i \in SeqsUpTo(InterBlobs, 1) }
  \cup
  { [kind |-> "ok", name |-> n, admins |-> <<>>, rootCerts |-> r,
     intermediateCerts |-> <<>>, hasSid |-> TRUE, sid |-> s] :
      n \in Names, r \in SeqsUpTo(RootBlobs, MaxCerts), s \in SidInfos }

Configs == {NilConf, GarbageConf} \cup OkConfs

\* ------------------------------------------------------------------ store
NilOpts == [nil |-> TRUE, Roots |-> {}, Intermediates |-> {}]

\* &bccspmsp{} as NewBccspMsp leaves it
NewBccspMsp ==
  [name |-> "", admins |-> <<>>, rootCerts |-> <<>>, intermediateCerts |-> <<>>,
   signer |-> NilSigner, opts |-> NilOpts]

VARIABLES msp, ret, setupPc, setupIx, setupConf, setupPre, setups, rd, reads

vars == <<msp, ret, setupPc, setupIx, setupConf, setupPre, setups, rd, reads>>

\* the loop "for i, c := range blobs { id, err := getIdentityFromConf(c);
\* if err != nil { return err }; list[i] = id }" from entry i on
RECURSIVE FillFrom(_, _, _, _)
FillFrom(mspName, blobs, i, list) ==
  IF i > Len(blobs) THEN [err |-> "", list |-> list]
  ELSE LET r == getIdentityFromConf(mspName, blobs[i])
       IN IF r.err # "" THEN [err |-> r.err, list |-> list]
          ELSE FillFrom(mspName, blobs, i + 1, [list EXCEPT ![i] = r.id])

\* the loop over a list made with make([]Identity, len(blobs)): the entries
\* from the failing one on stay nil
FillIdentities(mspName, blobs) ==
  FillFrom(mspName, blobs, 1, [i \in 1..Len(blobs) |-> NilIdentity])

\* Setup, lines 147-156: the nil reference and proto.Unmarshal
CheckConf(m, conf) ==
  [m |-> m, err |-> IF conf.kind = "ok" THEN "" ELSE "ConfigError"]

\* Setup, line 159
SetName(m, conf) == [m |-> [m EXCEPT !.name = conf.name], err |-> ""]

\* Setup, lines 163-173
SetAdmins(m, conf) ==
  IF conf.admins = <<>> THEN [m |-> m, err |-> ""]
  ELSE LET f == FillIdentities(m.name, conf.admins)
       IN [m |-> [m EXCEPT !.admins = f.list], err |-> f.err]

\* Setup, lines 176-187, with the check of line 176 left out
SetRootsUnchecked(m, conf) ==
  LET f == FillIdentities(m.name, conf.rootCerts)
  IN [m |-> [m EXCEPT !.rootCerts = f.list], err |-> f.err]

\* Setup, lines 176-187
SetRoots(m, conf) ==
  IF Len(conf.rootCerts) = 0 THEN [m |-> m, err |-> "ConfigError"]
  ELSE LET f == FillIdentities(m.name, conf.rootCerts)
       IN [m |-> [m EXCEPT !.rootCerts = f.list], err |-> f.err]

\* Setup, lines 190-202
SetIntermediates(m, conf) ==
  IF conf.intermediateCerts # <<>>
    THEN LET f == FillIdentities(m.name, conf.intermediateCerts)
         IN [m |-> [m EXCEPT !.intermediateCerts = f.list], err |-> f.err]
    ELSE [m |-> [m EXCEPT !.intermediateCerts = <<>>], err |-> ""]

\* Setup, lines 205-212
SetSigner(m, conf) ==
  IF conf.hasSid
    THEN LET r == getSigningIdentityFromConf(m.name, conf.sid)
         IN IF r.err # "" THEN [m |-> m, err |-> r.err]
            ELSE [m |-> [m EXCEPT !.signer = r.sid], err |-> ""]
    ELSE [m |-> m, err |-> ""]

\* Setup, lines 215-224
SetOpts(m, conf) ==
  [m |-> [m EXCEPT !.opts =
            [nil |-> FALSE,
             Roots |-> {m.rootCerts[i].cert : i \in 1..Len(m.rootCerts)},
             Intermediates |->
               {m.intermediateCerts[i].cert : i \in 1..Len(m.intermediateCerts)}]],
   err |-> ""]

\* Setup(conf1) as one call: the statements in order, returning at the
\* first error
SetupResult(m, conf) ==
  LET r0 == CheckConf(m, conf) IN IF r0.err # "" THEN r0 ELSE
  LET r1 == SetName(r0.m, conf) IN IF r1.err # "" THEN r1 ELSE
  LET r2 == SetAdmins(r1.m, conf) IN IF r2.err # "" THEN r2 ELSE
  LET r3 == SetRoots(r2.m, conf) IN IF r3.err # "" THEN r3 ELSE
  LET r4 == SetIntermediates(r3.m, conf) IN IF r4.err # "" THEN r4 ELSE
  LET r5 == SetSigner(r4.m, conf) IN IF r5.err # "" THEN r5 ELSE
  [m |-> SetOpts(r5.m, conf).m, err |-> "ok"]

\* ---------------------------------------------------------------- readers
\* cert.Verify(opts): a chain from cert to a certificate of opts.Roots, through
\* CA certificates of opts.Intermediates; a certificate names its issuer by
\* subject, and a certificate that is itself in Roots is its own chain
RECURSIVE ChainToRoot(_, _, _)
ChainToRoot(cert, opts, depth) ==
  \/ cert \in opts.Roots
  \/ \E r \in opts.Roots : r.subject = cert.issuer /\ r.isCA
  \/ /\ depth > 0
     /\ \E i \in opts.Intermediates :
          /\ i.subject = cert.issuer
          /\ i.isCA
          /\ i # cert
          /\ ChainToRoot(i, opts, depth - 1)

Verify(cert, opts) == ChainToRoot(cert, opts, Cardinality(opts.Intermediates))

\* Validate(id) with the check of line 277 left out
ValidateNoCACheck(m, id) ==
  IF id.type = "x509"
    THEN IF m.opts.nil THEN "UninitializedError"
         ELSE IF ~Verify(id.cert, m.opts) THEN "ChainVerificationError"
         ELSE "ok"
    ELSE "UnknownIdentityType"

\* Validate(id): the error it returns
Validate(m, id) ==
  IF id.type = "x509"
    THEN IF m.opts.nil THEN "UninitializedError"
         ELSE IF id.cert.isCA THEN "CAUsedAsIdentityError"
         ELSE IF ~Verify(id.cert, m.opts) THEN "ChainVerificationError"
         ELSE "ok"
    ELSE "UnknownIdentityType"

\* the wire record SerializedIdentity; ok: proto.Unmarshal accepts the bytes
SerializedIdentity(mspid, idBytes) == [ok |-> TRUE, mspid |-> mspid, idBytes |-> idBytes]

GarbageSerialized == [ok |-> FALSE, mspid |-> "", idBytes |-> NilBytes]

\* identity.Serialize(): {Mspid: id.id.Mspid, IdBytes: PEM of the certificate}
Serialize(id) == SerializedIdentity(id.mspid, PemOf(id.cert))

\* deserializeIdentityInternal(serializedIdentity)
deserializeIdentityInternal(m, idBytes) ==
  IF ~PemDecode(idBytes).ok
    THEN [err |-> "DecodeError", id |-> NilIdentity]
  ELSE IF ~ParseCertificate(PemDecode(idBytes).bytes).ok
    THEN [err |-> "ParseError", id |-> NilIdentity]
  ELSE IF ~KeyImportCert(ParseCertificate(PemDecode(idBytes).bytes).cert).ok
    THEN [err |-> "KeyImportError", id |-> NilIdentity]
  ELSE LET cert == ParseCertificate(PemDecode(idBytes).bytes).cert
       IN [err |-> "ok",
           id |-> newIdentity(m.name, "DEFAULT", cert, KeyImportCert(cert).pk)]

\* DeserializeIdentity(serializedID) with the check of line 316 left out
DeserializeIdentityNoNameCheck(m, sId) ==
  IF ~sId.ok THEN [err |-> "DecodeError", id |-> NilIdentity]
  ELSE deserializeIdentityInternal(m, sId.idBytes)

\* DeserializeIdentity(serializedID)
DeserializeIdentity(m, sId) ==
  IF ~sId.ok THEN [err |-> "DecodeError", id |-> NilIdentity]
  ELSE IF sId.mspid # m.name THEN [err |-> "MSPMismatchError", id |-> NilIdentity]
  ELSE deserializeIdentityInternal(m, sId.idBytes)

\* an MSPPrincipal: its classification, and its payload as proto.Unmarshal
\* (ROLE) or bytes.Compare (IDENTITY) reads it
RolePrincipal(mspid, role) ==
  [class |-> "ROLE", roleOk |-> TRUE, mspid |-> mspid, role |-> role,
   bytes |-> GarbageSerialized]

GarbageRolePrincipal ==
  [class |-> "ROLE", roleOk |-> FALSE, mspid |-> "", role |-> "",
   bytes |-> GarbageSerialized]

IdentityPrincipal(sId) ==
  [class |-> "IDENTITY", roleOk |-> FALSE, mspid |-> "", role |-> "", bytes |-> sId]

OtherPrincipal(class) ==
  [class |-> class, roleOk |-> FALSE, mspid |-> "", role |-> "",
   bytes |-> GarbageSerialized]

\* SatisfiesPrincipal(id, principal): the error it returns, or "panic"
SatisfiesPrincipal(m, id, principal) ==
  CASE principal.class = "ROLE" ->
         IF ~principal.roleOk THEN "DecodeError"
         ELSE IF principal.mspid # m.name THEN "DomainMismatchError"
         ELSE CASE principal.role = "MEMBER" -> Validate(m, id)
                [] principal.role = "ADMIN" -> "panic"
                [] OTHER -> "UnknownRoleError"
    [] principal.class = "IDENTITY" ->
         IF Serialize(id) = principal.bytes THEN "ok" ELSE "IdentityMismatchError"
    [] principal.class = "ORGANIZATION_UNIT" -> "panic"
    [] OTHER -> "UnknownPrincipalTypeError"

\* GetDefaultSigningIdentity()
GetDefaultSigningIdentity(m) ==
  IF m.signer.nil THEN [err |-> "NoSigningIdentity", sid |-> NilSigner]
  ELSE [err |-> "ok", sid |-> m.signer]

\* ----------------------------------------------------------------- inputs
\* the identities callers hand in: X.509 identities of either provider, as
\* DeserializeIdentity builds them, and one identity of another kind
X509Identities ==
  {newIdentity(n, "DEFAULT", c, c.key) : n \in Names, c \in {CertR, CertE}}

ForeignIdentity ==
  [nil |-> FALSE, type |-> "other", mspid |-> "org1", id |-> "DEFAULT",
   cert |-> NoCert, pk |-> 0]

Identities == X509Identities \cup {ForeignIdentity}

SerializedIdentities ==
  {GarbageSerialized}
  \cup {SerializedIdentity(n, b) :
          n \in Names, b \in {TextBytes, BadDer} \cup {PemOf(c) : c \in Certs}}

Principals ==
  {RolePrincipal(n, r) : n \in Names, r \in {"MEMBER", "ADMIN", "OTHER"}}
  \cup {GarbageRolePrincipal, OtherPrincipal("ORGANIZATION_UNIT"), OtherPrincipal("OTHER")}
  \cup {IdentityPrincipal(Serialize(i)) : i \in {j \in X509Identities : ~j.cert.isCA}}

\* the identities a store holds
StoreIdentities(m) ==
  {i \in {m.admins[k] : k \in 1..Len(m.admins)}
         \cup {m.rootCerts[k] : k \in 1..Len(m.rootCerts)}
         \cup {m.intermediateCerts[k] : k \in 1..Len(m.intermediateCerts)} : ~i.nil}

\* ---------------------------------------------------------------- actions
\* ret: the last call and what it returned
Ret(op, err, conf, id) == [op |-> op, err |-> err, conf |-> conf, id |-> id]

\* rd: the reader call under way next to a Setup (pc "idle": none): the
\* statement it is at, its arguments, and what it has read so far
RdIdle ==
  [pc |-> "idle", op |-> "", id |-> NilIdentity, bytes |-> NilBytes,
   start |-> NilOpts, view |-> NilOpts, cur |-> FALSE, raced |-> FALSE]

Init ==
  /\ msp = NewBccspMsp
  /\ ret = Ret("NewBccspMsp", "ok", NoConf, NilIdentity)
  /\ setupPc = "idle"
  /\ setupIx = 1
  /\ setupConf = NoConf
  /\ setupPre = NewBccspMsp
  /\ setups = 0
  /\ rd = RdIdle
  /\ reads = 0

unchangedSetup == UNCHANGED <<setupPc, setupIx, setupConf, setupPre, setups, rd, reads>>

DoSetup(conf) ==
  /\ setupPc = "idle"
  /\ setups < MaxSetups
  /\ LET r == SetupResult(msp, conf)
     IN /\ msp' = r.m
        /\ ret' = Ret("Setup", r.err, conf, NilIdentity)
  /\ setups' = setups + 1
  /\ UNCHANGED <<setupPc, setupIx, setupConf, setupPre, rd, reads>>

DoGetIdentifier ==
  /\ ret' = Ret("GetIdentifier", "ok", NoConf,
                [NilIdentity EXCEPT !.mspid = msp.name])
  /\ UNCHANGED msp
  /\ unchangedSetup

DoGetDefaultSigningIdentity ==
  /\ LET r == GetDefaultSigningIdentity(msp)
     IN ret' = Ret("GetDefaultSigningIdentity", r.err, NoConf,
                   IF r.sid.nil THEN NilIdentity
                   ELSE newIdentity(r.sid.mspid, r.sid.id, r.sid.cert, r.sid.pk))
  /\ UNCHANGED msp
  /\ unchangedSetup

DoValidate(id) ==
  /\ ret' = Ret("Validate", Validate(msp, id), NoConf, NilIdentity)
  /\ UNCHANGED msp
  /\ unchangedSetup

DoDeserializeIdentity(sId) ==
  /\ LET r == DeserializeIdentity(msp, sId)
     IN ret' = Ret("DeserializeIdentity", r.err, NoConf, r.id)
  /\ UNCHANGED msp
  /\ unchangedSetup

DoSatisfiesPrincipal(id, principal) ==
  /\ ret' = Ret("SatisfiesPrincipal", SatisfiesPrincipal(msp, id, principal),
                NoConf, NilIdentity)
  /\ UNCHANGED msp
  /\ unchangedSetup

Next ==
  \/ \E conf \in Configs : DoSetup(conf)
  \/ DoGetIdentifier
  \/ DoGetDefaultSigningIdentity
  \/ \E id \in Identities : DoValidate(id)
  \/ \E sId \in SerializedIdentities : DoDeserializeIdentity(sId)
  \/ \E id \in X509Identities, principal \in Principals : DoSatisfiesPrincipal(id, principal)

Spec == Init /\ [][Next]_vars

\* ------------------------------------------- Setup next to concurrent readers
\* The struct has no lock: a Setup running in one goroutine writes the fields
\* one statement after the other while a reader call runs in another, and
\* the reader reads a field anew each time its code names it. A step is one
\* statement's access to the struct; word tearing within one access is left
\* out.

\* make([]Identity, n): n nil entries
NilList(n) == [i \in 1..n |-> NilIdentity]

\* where Setup stands, and the outcome of the statement it runs: err is ""
\* while Setup goes on, and what Setup returns otherwise
SetupGoes(m, pc, ix) == [m |-> m, err |-> "", pc |-> pc, ix |-> ix]

SetupReturns(m, err) == [m |-> m, err |-> err, pc |-> "idle", ix |-> 1]

\* one pass of a loop "for i, c := range blobs": entry ix of the blobs is
\* ingested and stored in the list named by field, and "after" follows the
\* last pass
FillEntry(m, field, blobs, ix, pc, after) ==
  LET r == getIdentityFromConf(m.name, blobs[ix])
  IN IF r.err # "" THEN SetupReturns(m, r.err)
     ELSE IF ix < Len(blobs)
       THEN SetupGoes([m EXCEPT ![field][ix] = r.id], pc, ix + 1)
     ELSE SetupGoes([m EXCEPT ![field][ix] = r.id], after, 1)

\* the statement of Setup at pc, in pass ix of its loop
SetupStmt(pc, ix, m, conf) ==
  CASE pc = "conf" ->
         IF conf.kind = "ok" THEN SetupGoes(m, "name", 1)
         ELSE SetupReturns(m, "ConfigError")
    [] pc = "name" ->
         SetupGoes([m EXCEPT !.name = conf.name], "admins", 1)
    [] pc = "admins" ->
         IF conf.admins # <<>>
           THEN SetupGoes([m EXCEPT !.admins = NilList(Len(conf.admins))],
                          "adminsFill", 1)
         ELSE SetupGoes(m, "rootCerts", 1)
    [] pc = "adminsFill" ->
         FillEntry(m, "admins", conf.admins, ix, "adminsFill", "rootCerts")
    [] pc = "rootCerts" ->
         IF Len(conf.rootCerts) = 0 THEN SetupReturns(m, "ConfigError")
         ELSE SetupGoes([m EXCEPT !.rootCerts = NilList(Len(conf.rootCerts))],
                        "rootCertsFill", 1)
    [] pc = "rootCertsFill" ->
         FillEntry(m, "rootCerts", conf.rootCerts, ix, "rootCertsFill",
                   "intermediateCerts")
    [] pc = "intermediateCerts" ->
         IF conf.intermediateCerts # <<>>
           THEN SetupGoes([m EXCEPT !.intermediateCerts =
                                      NilList(Len(conf.intermediateCerts))],
                          "intermediateCertsFill", 1)
         ELSE SetupGoes([m EXCEPT !.intermediateCerts = <<>>], "signer", 1)
    [] pc = "intermediateCertsFill" ->
         FillEntry(m, "intermediateCerts", conf.intermediateCerts, ix,
                   "intermediateCertsFill", "signer")
    [] pc = "signer" ->
         IF conf.hasSid
           THEN LET r == getSigningIdentityFromConf(m.name, conf.sid)
                IN IF r.err # "" THEN SetupReturns(m, r.err)
                   ELSE SetupGoes([m EXCEPT !.signer = r.sid], "opts", 1)
         ELSE SetupGoes(m, "opts", 1)
    [] pc = "opts" ->
         SetupGoes([m EXCEPT !.opts = [nil |-> FALSE, Roots |-> {},
                                       Intermediates |-> {}]],
                   "Roots", 1)
    [] pc = "Roots" ->
         LET n == [m EXCEPT !.opts.Roots = @ \cup {m.rootCerts[ix].cert}]
         IN IF ix < Len(m.rootCerts) THEN SetupGoes(n, "Roots", ix + 1)
            ELSE IF Len(m.intermediateCerts) > 0 THEN SetupGoes(n, "Intermediates", 1)
            ELSE SetupReturns(n, "ok")
    [] pc = "Intermediates" ->
         LET n == [m EXCEPT !.opts.Intermediates =
                              @ \cup {m.intermediateCerts[ix].cert}]
         IN IF ix < Len(m.intermediateCerts)
              THEN SetupGoes(n, "Intermediates", ix + 1)
            ELSE SetupReturns(n, "ok")

BeginSetup(conf) ==
  /\ setupPc = "idle"
  /\ setups < MaxSetups
  /\ setupPc' = "conf"
  /\ setupIx' = 1
  /\ setupConf' = conf
  /\ setupPre' = msp
  /\ setups' = setups + 1
  /\ UNCHANGED <<msp, ret, rd, reads>>

\* A reader inside cert.Verify holds the two pools of the options it copied.
\* While these are the pools Setup fills, an AddCert that adds a certificate
\* writes the maps the reader reads; once Setup has stored new options the
\* reader's pools are no longer written.
PoolsOf(r, pc, before, after) ==
  IF r.pc = "Verify" /\ r.cur
    THEN IF pc = "opts" THEN [r EXCEPT !.cur = FALSE]
         ELSE IF after # before THEN [r EXCEPT !.view = after, !.raced = TRUE]
         ELSE r
  ELSE r

StepSetup ==
  /\ setupPc # "idle"
  /\ LET r == SetupStmt(setupPc, setupIx, msp, setupConf)
     IN /\ msp' = r.m
        /\ setupPc' = r.pc
        /\ setupIx' = r.ix
        /\ ret' = IF r.err # "" THEN Ret("Setup", r.err, setupConf, NilIdentity)
                  ELSE ret
        /\ rd' = PoolsOf(rd, setupPc, msp.opts, r.m.opts)
  /\ UNCHANGED <<setupConf, setupPre, setups, reads>>

\* a reader call begins: it runs up to its first access of the struct
CallBegins ==
  /\ rd.pc = "idle"
  /\ reads < MaxReads
  /\ reads' = reads + 1
  /\ UNCHANGED <<msp, setupPc, setupIx, setupConf, setupPre, setups>>

\* a reader call goes on from statement pc
CallAt(pc) ==
  /\ rd.pc = pc
  /\ UNCHANGED <<msp, setupPc, setupIx, setupConf, setupPre, setups, reads>>

\* the reader call returns
Returns(op, err, id) ==
  /\ ret' = Ret(op, err, NoConf, id)
  /\ rd' = RdIdle

\* the reader call goes on to statement pc
GoesOn(op, pc, id, bytes) ==
  /\ rd' = [RdIdle EXCEPT !.pc = pc, !.op = op, !.id = id, !.bytes = bytes]
  /\ ret' = ret

\* GetIdentifier, line 236
CallGetIdentifier ==
  /\ CallBegins
  /\ Returns("GetIdentifier", "ok", [NilIdentity EXCEPT !.mspid = msp.name])

\* GetDefaultSigningIdentity, line 244: the nil check of msp.signer
CallGetDefaultSigningIdentity ==
  /\ CallBegins
  /\ IF msp.signer.nil
       THEN Returns("GetDefaultSigningIdentity", "NoSigningIdentity", NilIdentity)
     ELSE GoesOn("GetDefaultSigningIdentity", "signer", NilIdentity, NilBytes)

\* GetDefaultSigningIdentity, line 248: msp.signer is read again
ReturnSigner ==
  /\ CallAt("signer")
  /\ Returns(rd.op, "ok",
             newIdentity(msp.signer.mspid, msp.signer.id, msp.signer.cert,
                         msp.signer.pk))

\* Validate from the type switch to line 277, with the read of msp.opts of
\* line 272: the error returned, or "" when Validate goes on to line 293
CheckOpts(m, id) ==
  IF id.type # "x509" THEN "UnknownIdentityType"
  ELSE IF m.opts.nil THEN "UninitializedError"
  ELSE IF id.cert.isCA THEN "CAUsedAsIdentityError"
  ELSE ""

\* Validate(id), lines 264-277
CallValidate(id) ==
  /\ CallBegins
  /\ IF CheckOpts(msp, id) # ""
       THEN Returns("Validate", CheckOpts(msp, id), NilIdentity)
     ELSE GoesOn("Validate", "opts", id, NilBytes)

\* Validate(id) called by SatisfiesPrincipal at line 377, lines 264-277
ValidateMember ==
  /\ CallAt("Validate")
  /\ IF CheckOpts(msp, rd.id) # ""
       THEN Returns(rd.op, CheckOpts(msp, rd.id), NilIdentity)
     ELSE GoesOn(rd.op, "opts", rd.id, NilBytes)

\* Validate, line 293: msp.opts is read again and copied, and cert.Verify
\* starts on the pools the copy refers to
DerefOpts ==
  /\ CallAt("opts")
  /\ rd' = [rd EXCEPT !.pc = "Verify", !.start = msp.opts, !.view = msp.opts,
                      !.cur = TRUE, !.raced = FALSE]
  /\ ret' = ret

\* Validate, lines 293-298: cert.Verify returns. When certificates were added
\* to its pools meanwhile it has read them as they were at some point in
\* between, or the runtime has stopped the program on the concurrent map
\* read and map write.
VerifyReturns ==
  /\ CallAt("Verify")
  /\ \/ \E o \in {rd.start, rd.view} :
          Returns(rd.op,
                  IF Verify(rd.id.cert, o) THEN "ok" ELSE "ChainVerificationError",
                  NilIdentity)
     \/ /\ rd.raced
        /\ Returns(rd.op, "fatal", NilIdentity)

\* DeserializeIdentity(serializedID), lines 311-332: the name check of line
\* 316 and the decoding of the certificate
CallDeserializeIdentity(sId) ==
  /\ CallBegins
  /\ LET r == DeserializeIdentity(msp, sId)
     IN IF r.err \in {"DecodeError", "MSPMismatchError", "ParseError"}
          THEN Returns("DeserializeIdentity", r.err, NilIdentity)
        ELSE GoesOn("DeserializeIdentity", "name", NilIdentity, sId.idBytes)

\* deserializeIdentityInternal, lines 342-350: msp.name is read again for
\* the identifier
BuildIdentifier ==
  /\ CallAt("name")
  /\ LET r == deserializeIdentityInternal(msp, rd.bytes)
     IN Returns(rd.op, r.err, r.id)

\* SatisfiesPrincipal(id, principal), lines 355-399: the name check of line
\* 368; a MEMBER role goes on to Validate
CallSatisfiesPrincipal(id, principal) ==
  /\ CallBegins
  /\ IF /\ principal.class = "ROLE"
        /\ principal.roleOk
        /\ principal.mspid = msp.name
        /\ principal.role = "MEMBER"
       THEN GoesOn("SatisfiesPrincipal", "Validate", id, NilBytes)
     ELSE Returns("SatisfiesPrincipal", SatisfiesPrincipal(msp, id, principal),
                  NilIdentity)

NextConc ==
  \/ \E conf \in Configs : BeginSetup(conf)
  \/ StepSetup
  \/ CallGetIdentifier
  \/ CallGetDefaultSigningIdentity
  \/ ReturnSigner
  \/ \E id \in Identities : CallValidate(id)
  \/ ValidateMember
  \/ DerefOpts
  \/ VerifyReturns
  \/ \E sId \in SerializedIdentities : CallDeserializeIdentity(sId)
  \/ BuildIdentifier
  \/ \E id \in X509Identities, principal \in Principals :
       CallSatisfiesPrincipal(id, principal)

SpecConc == Init /\ [][NextConc]_vars

\* ------------------------------------------------------------------ claims
\* C1: a Setup call that fails leaves the store as it was before the call:
\* name, admins, rootCerts, intermediateCerts, signer and verification
\* options keep their values.
C1_FailedSetupLeavesStore ==
  [][(ret'.op = "Setup" /\ ret'.err # "ok") => msp' = msp]_vars

\* C2 as stated: a Setup call on a configuration with an empty root list
\* fails with ConfigError, and after a successful Setup rootCerts is not empty.
C2_EmptyRootsConfigError ==
  /\ (ret.op = "Setup" /\ ret.conf.kind = "ok" /\ ret.conf.rootCerts = <<>>)
       => ret.err = "ConfigError"
  /\ (ret.op = "Setup" /\ ret.err = "ok") => Len(msp.rootCerts) > 0

\* C2: a Setup call on a configuration with an empty root list fails, with
\* ConfigError when every admin certificate ingests and with the ingest error
\* of the first failing admin certificate otherwise; after a successful Setup
\* rootCerts is not empty and holds no nil entry.
C2_EmptyRootsSetupFails ==
  /\ (ret.op = "Setup" /\ ret.conf.kind = "ok" /\ ret.conf.rootCerts = <<>>)
       => LET adminErr == FillIdentities(ret.conf.name, ret.conf.admins).err
          IN ret.err = IF adminErr = "" THEN "ConfigError" ELSE adminErr
  /\ (ret.op = "Setup" /\ ret.err = "ok")
       => /\ Len(msp.rootCerts) > 0
          /\ \A k \in 1..Len(msp.rootCerts) : ~msp.rootCerts[k].nil

C2_Witness ==
  /\ ret.op = "Setup"
  /\ ret.conf.kind = "ok"
  /\ ret.conf.rootCerts = <<>>
  /\ ret.conf.admins # <<>>
  /\ ret.err = "ConfigError"
  /\ ~msp.opts.nil

\* C3: after a successful Setup(c) the store is the one c alone determines,
\* whatever Setup calls ran before: it equals the store a fresh instance
\* holds after Setup(c).
C3_SetupReplacesState ==
  (ret.op = "Setup" /\ ret.err = "ok") => msp = SetupResult(NewBccspMsp, ret.conf).m

\* C4: SatisfiesPrincipal on a ROLE principal naming this provider and the
\* ADMIN role, or on an ORGANIZATION_UNIT principal, returns
\* NotImplementedError: it neither succeeds nor panics.
C4_UnimplementedIsAnError ==
  [][\A id \in X509Identities :
       \A principal \in {RolePrincipal(msp.name, "ADMIN"),
                         OtherPrincipal("ORGANIZATION_UNIT")} :
         DoSatisfiesPrincipal(id, principal) => ret'.err = "NotImplementedError"]_vars

CAIdentities == {id \in X509Identities : id.cert.isCA}

\* C5 as stated: Validate on the identity of a CA certificate fails with
\* CAUsedAsIdentityError in every store state, also before any Setup.
C5_CAAlwaysRejectedAsCA ==
  [][ret'.op = "Validate" =>
       \A id \in CAIdentities :
         DoValidate(id) => ret'.err = "CAUsedAsIdentityError"]_vars

\* C5: Validate on the identity of a CA certificate always fails, whatever
\* the roots and intermediates are: with CAUsedAsIdentityError once the store
\* has verification options, with UninitializedError before.
C5_CARejected ==
  [][ret'.op = "Validate" =>
       \A id \in CAIdentities :
         DoValidate(id) =>
           ret'.err = IF msp.opts.nil THEN "UninitializedError"
                      ELSE "CAUsedAsIdentityError"]_vars

C5_Witness ==
  /\ ret.op = "Validate"
  /\ ret.err = "CAUsedAsIdentityError"
  /\ \E id \in CAIdentities : id.cert \in msp.opts.Roots

\* C6: for an identity I the store holds that passes Validate and carries the
\* store's name, DeserializeIdentity(Serialize(I)) succeeds and returns an
\* identity with I's certificate and I's identifier (provider name, local id).
C6_RoundTrip ==
  [][\A I \in StoreIdentities(msp) :
       (/\ I.mspid = msp.name
        /\ Validate(msp, I) = "ok"
        /\ DoDeserializeIdentity(Serialize(I)))
       => /\ ret'.err = "ok"
          /\ ret'.id.cert = I.cert
          /\ ret'.id.mspid = I.mspid
          /\ ret'.id.id = I.id]_vars

\* C7: a reader that runs while a Setup call is under way sees the store
\* either as it was before the call or as the call leaves it: whenever a
\* reader call reads a field of the struct during a Setup, the struct is in
\* one of the two states.
C7_NoHalfBuiltStoreRead ==
  [][(/\ setupPc # "idle"
      /\ \/ rd.pc # "idle" /\ rd'.pc # rd.pc
         \/ reads' # reads /\ ret'.op = "GetIdentifier")
     => msp \in {setupPre, SetupResult(setupPre, setupConf).m}]_vars

\* C8: SatisfiesPrincipal on a ROLE principal whose provider name differs from
\* the identity's provider returns DomainMismatchError; a MEMBER check in
\* particular does not get to Validate.
C8_DomainMismatch ==
  [][\A id \in X509Identities :
       \A principal \in {RolePrincipal(n, "MEMBER") : n \in Names \ {id.mspid}} :
         DoSatisfiesPrincipal(id, principal) => ret'.err = "DomainMismatchError"]_vars

\* C9: the default signing identity's signer key is the public key of its
\* certificate.
C9_SignerKeyMatches ==
  ~msp.signer.nil => msp.signer.signerKey = msp.signer.pk

\* C10: DeserializeIdentity on a SerializedIdentity whose mspId is not the
\* store's name returns MSPMismatchError and no identity, whatever the
\* embedded certificate.
C10_MSPMismatch ==
  [][ret'.op = "DeserializeIdentity" =>
       \A sId \in SerializedIdentities :
         (sId.ok /\ sId.mspid # msp.name /\ DoDeserializeIdentity(sId))
         => (ret'.err = "MSPMismatchError" /\ ret'.id.nil)]_vars

C10_Witness ==
  /\ ret.op = "DeserializeIdentity"
  /\ ret.err = "MSPMismatchError"
  /\ ret.id.nil
  /\ msp.name \in Names
  /\ ~msp.opts.nil

====
